---------------------------- MODULE Spec2Model ----------------------------
(***************************************************************************)
(* HomeResourceMonitor.ino: the solar hot water monitor's setup() and      *)
(* loop(), its two pulse interrupt handlers and getSaneCurrentTemp().      *)
(*                                                                         *)
(* loop() is cut into steps at the places where an interrupt handler can   *)
(* observe a difference: lines 360-468 (clock, sensors, clamp, ring        *)
(* buffer, average, boost decision) are one step, the relay write the      *)
(* next, each                                                              *)
(* statement of the two detach / read / reset / attach sections is a step  *)
(* of its own, and so are the two report blocks and the UDP poll.          *)
(***************************************************************************)
EXTENDS Integers, Sequences, FiniteSets

VARIABLES
  pc,                                  \* position of loop()
  shw_ringbuf_offset,                  \* line 168
  shw_collector_temp_ringbuf,          \* line 170
  shw_vat_temp_ringbuf,                \* line 171
  last_avg_shw_collector_temp,         \* line 172
  last_avg_shw_vat_temp,               \* line 173
  shw_boost_state,                     \* line 175
  last_shw_boost_state,                \* line 176
  shw_boost_override,                  \* line 177
  firsttime,                           \* line 155
  haveremoteudp,                       \* line 154
  shw_boost_pulsecount,                \* line 188
  shw_hotwater_flowsensor_pulsecount,  \* line 187
  boostAttached, flowAttached,         \* interrupt 1 / interrupt 0 enabled
  boostPending, flowPending,           \* the interrupt flag latched while disabled
  relay,                               \* level of SHW_BOOST_RELAY_PIN
  hour,                                \* loop() local, line 354
  avg_shw_collector_temp,              \* loop() local, line 356
  avg_shw_vat_temp,                    \* loop() local, line 356
  shw_boostpulses,                     \* loop() local, line 357
  collector_temp, vat_temp,            \* loop() locals, line 414, as read from the sensors
  relayWritten,                        \* history: digitalWrite of line 471 ran in this cycle
  tempReported,                        \* history: the SHW_TEMP record was sent in this cycle
  reportedCode,                        \* history: the boost code of that record, line 509
  prevState,                           \* history: shw_boost_state at the end of the previous cycle
  prevAvgCol, prevAvgVat,              \* history: the averages of the previous cycle
  cycles,                              \* history: cycles started, saturating at CycleCap
  lastCmd,                             \* history: last boost command since the last cycle ended
  pktSinceCycle,                       \* history: a packet arrived since the last cycle ended
  boostEvents, boostDrained,           \* history: wH pulse edges, and counts drained
  flowEvents, flowDrained,             \* history: flow pulse edges, and counts drained
  elapsed,                             \* millis() - shw_hotwater_flowsensor_oldtime, lines 194, 360, 553
  shw_hotwater_flowsensor_flow_rate,   \* line 190, a binary32 float
  shw_hotwater_flowsensor_flow_ml,     \* line 191
  shw_hotwater_flowsensor_total_ml,    \* line 192
  flowReported,                        \* history: the SHW_FLOW record was sent in this cycle
  flowRead,                            \* history: what lines 553-554 read in this cycle
  prevFlow,                            \* history: pulses and millilitres of the previous cycle
  sensorCalls,                         \* history: the two calls of lines 422 and 427
  readFailed                           \* history: channels whose call failed in this cycle

vars == << pc, shw_ringbuf_offset, shw_collector_temp_ringbuf, shw_vat_temp_ringbuf,
           last_avg_shw_collector_temp, last_avg_shw_vat_temp, shw_boost_state,
           last_shw_boost_state, shw_boost_override, firsttime, haveremoteudp,
           shw_boost_pulsecount, shw_hotwater_flowsensor_pulsecount,
           boostAttached, flowAttached, boostPending, flowPending, relay,
           hour, avg_shw_collector_temp, avg_shw_vat_temp, shw_boostpulses,
           collector_temp, vat_temp, relayWritten, tempReported, reportedCode, prevState,
           prevAvgCol, prevAvgVat, cycles, lastCmd, pktSinceCycle,
           boostEvents, boostDrained, flowEvents, flowDrained, elapsed,
           shw_hotwater_flowsensor_flow_rate, shw_hotwater_flowsensor_flow_ml,
           shw_hotwater_flowsensor_total_ml, flowReported, flowRead, prevFlow,
           sensorCalls, readFailed >>

tempVars == << shw_ringbuf_offset, shw_collector_temp_ringbuf, shw_vat_temp_ringbuf,
               last_avg_shw_collector_temp, last_avg_shw_vat_temp >>
boostVars == << shw_boost_state, last_shw_boost_state, shw_boost_override, relay >>
boostIntVars == << shw_boost_pulsecount, boostAttached, boostPending,
                   boostEvents, boostDrained >>
flowIntVars == << shw_hotwater_flowsensor_pulsecount, flowAttached, flowPending,
                  flowEvents, flowDrained >>
localVars == << hour, avg_shw_collector_temp, avg_shw_vat_temp, shw_boostpulses,
                collector_temp, vat_temp >>
cycleHist == << relayWritten, tempReported, reportedCode, prevState, prevAvgCol,
               prevAvgVat, cycles >>
cmdHist == << lastCmd, pktSinceCycle >>
flowVars == << shw_hotwater_flowsensor_flow_rate, shw_hotwater_flowsensor_flow_ml,
               shw_hotwater_flowsensor_total_ml >>
flowHist == << flowReported, flowRead, prevFlow >>
senseHist == << sensorCalls, readFailed >>

---------------------------------------------------------------------------
(* Program constants *)

BOOST_ON_A_START == 14
BOOST_ON_A_END == 20
BOOST_ON_A_TEMP == 4200
BOOST_ON_B_START == 4
BOOST_ON_B_END == 7
BOOST_ON_B_TEMP == 4200
BOOST_OFF_TEMP == 4600
SHW_RINGBUF_NUM_ITEMS == 10
SANE_TRIES == 5
TEMP_MIN == -500
TEMP_MAX == 10000
MAX_JUMP == 100
UINT_MOD == 65536
STARTUP_DELAY == 50
CONVERT_DELAY == 1000
RETRY_DELAY == 500
GATE_PERIOD == 1000

---------------------------------------------------------------------------
(* Arithmetic of the build: 16 bit int and unsigned int, C division *)

Int16(x) == ((x + 32768) % UINT_MOD) - 32768

TruncDiv(a, b) == IF a >= 0 THEN a \div b ELSE -((-a) \div b)

Abs(x) == IF x >= 0 THEN x ELSE -x

Min(a, b) == IF a <= b THEN a ELSE b

---------------------------------------------------------------------------
(* getSaneCurrentTemp, lines 219-268 *)

\* lines 246-253: the scratchpad's 16 bit reading to centi-degrees
DecodeTemp(TReading) ==
  LET sign == TReading >= 32768
      mag  == IF sign THEN ((UINT_MOD - 1 - TReading) + 1) % UINT_MOD ELSE TReading
      tmp  == Int16((6 * mag + mag \div 4) % UINT_MOD)
  IN  IF sign THEN Int16(-tmp) ELSE tmp

\* SaneRange with both ends of the range accepted
SaneRange_inclusive(tmp) == tmp >= TEMP_MIN /\ tmp <= TEMP_MAX

\* line 255
SaneRange(tmp) == tmp > TEMP_MIN /\ tmp < TEMP_MAX

\* line 239 and line 255: the frame of one attempt is accepted
FrameAccepted(f) == f.crc /\ SaneRange(DecodeTemp(f.t))

\* SaneAttempts where *temp is written at line 251, before the range check
RECURSIVE SaneAttempts_storeEarly(_, _, _, _)
SaneAttempts_storeEarly(frames, i, temp, ms) ==
  IF i >= SANE_TRIES
  THEN [ok |-> FALSE, temp |-> temp, tries |-> i, ms |-> ms]
  ELSE LET f == frames[i + 1]
           t == IF f.crc THEN DecodeTemp(f.t) ELSE temp
       IN  IF FrameAccepted(f)
           THEN [ok |-> TRUE, temp |-> t, tries |-> i + 1, ms |-> ms + CONVERT_DELAY]
           ELSE SaneAttempts_storeEarly(frames, i + 1, t, ms + CONVERT_DELAY + RETRY_DELAY)

\* the for loop of lines 224-264 from its i-th pass on: frames[i + 1] is what
\* the sensor answers in that pass, temp is *temp, ms the time spent in delay()
RECURSIVE SaneAttempts(_, _, _, _)
SaneAttempts(frames, i, temp, ms) ==
  IF i >= SANE_TRIES
  THEN [ok |-> FALSE, temp |-> temp, tries |-> i, ms |-> ms]            \* line 267
  ELSE LET f == frames[i + 1]
       IN  IF FrameAccepted(f)
           THEN [ok |-> TRUE, temp |-> DecodeTemp(f.t), tries |-> i + 1,  \* lines 256-257
                 ms |-> ms + CONVERT_DELAY]
           ELSE SaneAttempts(frames, i + 1, temp, ms + CONVERT_DELAY + RETRY_DELAY)

\* frames[i] is what the sensor answers to attempt i; temp is *temp on entry
getSaneCurrentTemp(frames, temp) == SaneAttempts(frames, 0, temp, 0)

---------------------------------------------------------------------------
(* Sanity filter and averaging, lines 430-457 *)

\* Clamp without its second branch
Clamp_upperOnly(r, a) ==
  IF Int16(r - a) > MAX_JUMP THEN Int16(a + MAX_JUMP) ELSE r

\* lines 434-437 (and 439-442): r the reading, a the last average
Clamp(r, a) ==
  IF Int16(r - a) > MAX_JUMP THEN Int16(a + MAX_JUMP)
  ELSE IF Int16(r - a) < -MAX_JUMP THEN Int16(a - MAX_JUMP)
  ELSE r

\* NextOffset that passes over a slot
NextOffset_skip(o) == (o + 2) % SHW_RINGBUF_NUM_ITEMS

\* NextOffset without the increment
NextOffset_stuck(o) == o % SHW_RINGBUF_NUM_ITEMS

\* lines 448-449
NextOffset(o) == (o + 1) % SHW_RINGBUF_NUM_ITEMS

RECURSIVE SumTo(_, _)
SumTo(buf, n) == IF n = 0 THEN 0 ELSE buf[n - 1] + SumTo(buf, n - 1)

\* lines 451-457: a long sum, divided as C divides
Average(buf) == TruncDiv(SumTo(buf, SHW_RINGBUF_NUM_ITEMS), SHW_RINGBUF_NUM_ITEMS)

---------------------------------------------------------------------------
(* Boost switch logic, lines 460-471 *)

\* BoostOffCond with > for >=
BoostOffCond_above(T) == T > BOOST_OFF_TEMP

\* line 461
BoostOffCond(T) == T >= BOOST_OFF_TEMP

\* BoostOnCond with > for >= at the start of the day window
BoostOnCond_lateStart(ovr, h, T) ==
  \/ ovr
  \/ (h > BOOST_ON_A_START /\ h < BOOST_ON_A_END) /\ T < BOOST_ON_A_TEMP
  \/ (h >= BOOST_ON_B_START /\ h < BOOST_ON_B_END) /\ T < BOOST_ON_B_TEMP

\* BoostOnCond with the night window as the comment of line 37 writes it
BoostOnCond_orWindow(ovr, h, T) ==
  \/ ovr
  \/ (h >= BOOST_ON_A_START /\ h < BOOST_ON_A_END) /\ T < BOOST_ON_A_TEMP
  \/ (h >= BOOST_ON_B_START \/ h < BOOST_ON_B_END) /\ T < BOOST_ON_B_TEMP

\* lines 464-466
BoostOnCond(ovr, h, T) ==
  \/ ovr
  \/ (h >= BOOST_ON_A_START /\ h < BOOST_ON_A_END) /\ T < BOOST_ON_A_TEMP
  \/ (h >= BOOST_ON_B_START /\ h < BOOST_ON_B_END) /\ T < BOOST_ON_B_TEMP

\* BoostLogic with an override that is used up by the cycle it turns on
BoostLogic_oneShot(state, ovr, h, T) ==
  IF BoostOffCond(T) THEN [state |-> FALSE, override |-> FALSE]
  ELSE IF BoostOnCond(ovr, h, T) THEN [state |-> TRUE, override |-> FALSE]
  ELSE [state |-> state, override |-> ovr]

\* BoostLogic with an off-condition that leaves the override as it is
BoostLogic_keepOverride(state, ovr, h, T) ==
  IF BoostOffCond(T) THEN [state |-> FALSE, override |-> ovr]
  ELSE IF BoostOnCond(ovr, h, T) THEN [state |-> TRUE, override |-> ovr]
  ELSE [state |-> state, override |-> ovr]

\* lines 461-468
BoostLogic(state, ovr, h, T) ==
  IF BoostOffCond(T) THEN [state |-> FALSE, override |-> FALSE]
  ELSE IF BoostOnCond(ovr, h, T) THEN [state |-> TRUE, override |-> ovr]
  ELSE [state |-> state, override |-> ovr]

\* RelayEdge for the change to ON alone
RelayEdge_risingOnly(state, last) == state /\ ~last

\* RelayEdge as a level: write whenever the state is ON
RelayEdge_level(state, last) == state

\* line 470
RelayEdge(state, last) == state # last

\* TempReportCond always true: a record every cycle
TempReportCond_always(first, avgc, lastc, avgv, lastv, state, last, pulses) == TRUE

\* TempReportCond without the comparison of the averages
TempReportCond_noAverages(first, avgc, lastc, avgv, lastv, state, last, pulses) ==
  first \/ state # last \/ pulses # 0

\* lines 492-496
TempReportCond(first, avgc, lastc, avgv, lastv, state, last, pulses) ==
  first \/ avgc # lastc \/ avgv # lastv \/ state # last \/ pulses # 0

\* no SHW_TEMP record was composed
NoCode == -1

\* line 509: the boost code of the SHW_TEMP record
BoostCode(state, ovr) == IF ovr THEN 2 ELSE IF state THEN 1 ELSE 0

---------------------------------------------------------------------------
(* The build's float and double: IEEE 754 binary32, round to nearest even.  *)
(* A float is [m, e] for m * 2^e, with m odd and below 2^24, or m = 0.      *)

MANT_BITS == 24

RECURSIVE Pow2(_)
Pow2(k) == IF k = 0 THEN 1 ELSE 2 * Pow2(k - 1)

FZero == [m |-> 0, e |-> 0]

RECURSIVE FReduce(_, _)
FReduce(m, e) ==
  IF m = 0 THEN FZero
  ELSE IF m % 2 = 0 THEN FReduce(m \div 2, e + 1)
  ELSE [m |-> m, e |-> e]

\* a * 2^e = (a' / b') * 2^e' with b' <= a' < 2 b'
RECURSIVE FAlign(_, _, _)
FAlign(a, b, e) ==
  IF a < b THEN FAlign(2 * a, b, e - 1)
  ELSE IF a \div 2 >= b THEN FAlign(a, 2 * b, e + 1)
  ELSE [a |-> a, b |-> b, e |-> e]

\* long division: q the bits of the quotient so far, r the remainder, n bits to go
RECURSIVE FQuotient(_, _, _, _)
FQuotient(q, r, b, n) ==
  IF n = 0 THEN [q |-> q, r |-> r]
  ELSE IF 2 * r >= b THEN FQuotient(2 * q + 1, 2 * r - b, b, n - 1)
  ELSE FQuotient(2 * q, 2 * r, b, n - 1)

\* the float nearest to (a / b) * 2^e, ties to the even mantissa; a >= 0, b > 0
FRound(a, b, e) ==
  IF a = 0 THEN FZero
  ELSE LET n  == FAlign(a, b, e)
           d  == FQuotient(1, n.a - n.b, n.b, MANT_BITS - 1)
           up == 2 * d.r > n.b \/ (2 * d.r = n.b /\ d.q % 2 = 1)
           q  == IF up THEN d.q + 1 ELSE d.q
       IN  FReduce(q, n.e - (MANT_BITS - 1))

FFromInt(n) == FReduce(n, 0)
FMul(x, y) == FRound(x.m * y.m, 1, x.e + y.e)
FDiv(x, y) == FRound(x.m, y.m, x.e - y.e)
FPositive(x) == x.m > 0

\* conversion of a float that is not negative to an integer type: truncation
FTrunc(x) ==
  IF x.e >= 0 THEN x.m * Pow2(x.e)
  ELSE IF -x.e >= MANT_BITS THEN 0
  ELSE x.m \div Pow2(-x.e)

---------------------------------------------------------------------------
(* Flow sensor, lines 184 and 553-569, 595 *)

shw_hotwater_flowsensor_calibrationFactor == [m |-> 11, e |-> -1]     \* 5.5, line 184

\* lines 553-555: ms is millis() - shw_hotwater_flowsensor_oldtime
FlowRate(ms, pulsecount) ==
  FDiv(FMul(FDiv(FFromInt(1000), FFromInt(ms)), FFromInt(pulsecount)),
       shw_hotwater_flowsensor_calibrationFactor)

\* FlowMl rounded to the nearest millilitre instead of truncated
FlowMl_nearest(rate) ==
  LET x == FMul(FDiv(rate, FFromInt(60)), FFromInt(1000))
  IN  ((FTrunc([m |-> x.m, e |-> x.e + 1]) + 1) \div 2) % UINT_MOD

\* line 566, stored in an unsigned int
FlowMl(rate) == FTrunc(FMul(FDiv(rate, FFromInt(60)), FFromInt(1000))) % UINT_MOD

\* FlowReportCond that never forces a record
FlowReportCond_rateOnly(first, rate) == FPositive(rate)

\* line 595
FlowReportCond(first, rate) == first \/ FPositive(rate)

\* GateOpen at 1000 ms too
GateOpen_atPeriod(ms) == ms >= GATE_PERIOD

\* line 360
GateOpen(ms) == ms > GATE_PERIOD

---------------------------------------------------------------------------
(* Remote control of the boost, lines 679-687 *)

\* PacketForces for the two boost commands alone
PacketForces_commandsOnly(p) == p \in {"BOOST_ON", "BOOST_OFF"}

\* line 677: a packet of any text sets firsttime
PacketForces(p) == TRUE

\* BoostCommand where BOOST_OFF clears the override alone
BoostCommand_overrideOnly(p, state, ovr) ==
  IF p = "BOOST_ON" THEN [state |-> state, override |-> TRUE]
  ELSE IF p = "BOOST_OFF" THEN [state |-> state, override |-> FALSE]
  ELSE [state |-> state, override |-> ovr]

\* lines 680-687: p the text of the packet
BoostCommand(p, state, ovr) ==
  IF p = "BOOST_ON" THEN [state |-> state, override |-> TRUE]
  ELSE IF p = "BOOST_OFF" THEN [state |-> FALSE, override |-> FALSE]
  ELSE [state |-> state, override |-> ovr]

---------------------------------------------------------------------------
(* Bounds of the model, and the inputs drawn within them *)

MaxCycles == 2        \* cycles of the control specification
CycleCap == 250       \* where the history counter of cycles saturates
TrendSettled == 244   \* cycles after which the trend specification has settled
MaxReportCycles == 2  \* cycles of the report specification
MaxReportPulses == 1  \* wH pulse edges in the report specification
MaxPulses == 3        \* pulse edges per source in the pulse specification
MaxPulseCycles == 2   \* cycles of the pulse specification

Hours == 0..23

\* milliseconds gone by between two readings of millis(): less than one, or
\* a little more than the period of line 360
Ticks == {0, 1001}

\* sensor readings, in the sensor's units of 1/16 degree (16 * degrees)
InitColRaws == {640}                  \* 40.00
ColRaws == {656}                      \* 41.00
InitVatRaws == {672, 688, 735}        \* 42.00, 43.00, 45.93
VatRaws == {656, 688, 747}            \* 41.00, 43.00, 46.68

Packets == {"", "BOOST_ON", "BOOST_OFF", "HELLO"}   \* "" : no packet waiting

GoodFrame(t) == [crc |-> TRUE, t |-> t]
BadFrame == [crc |-> FALSE, t |-> 0]
SameFrames(f) == [i \in 1..SANE_TRIES |-> f]

\* what a sensor answers to the attempts of one call: the reading, or nothing valid
Reads(raws) == { SameFrames(GoodFrame(t)) : t \in raws } \cup { SameFrames(BadFrame) }

---------------------------------------------------------------------------
(* setup(), lines 272-346 *)

NoCall == [frames |-> << >>, ok |-> FALSE, temp |-> 0, tries |-> 0, ms |-> 0]
NoCalls == [col |-> NoCall, vat |-> NoCall]
NoFlowRead == [pulses |-> 0, ms |-> 0]

\* SensorCall without the assignment of line 421 (and 426) before the call
SensorCall_notPreset(frames, temp) ==
  LET r == getSaneCurrentTemp(frames, 0)
  IN  [frames |-> frames, ok |-> r.ok, temp |-> r.temp, tries |-> r.tries, ms |-> r.ms]

\* lines 421-422 (and 426-427): a call of getSaneCurrentTemp on a variable
\* that holds temp, with the frames it was answered
SensorCall(frames, temp) ==
  LET r == getSaneCurrentTemp(frames, temp)
  IN  [frames |-> frames, ok |-> r.ok, temp |-> r.temp, tries |-> r.tries, ms |-> r.ms]

\* what setup() leaves, but for the flow counter, the clock and the position
\* of loop(): cf and vf are the sensors' answers to lines 320 and 321
SetupState(cf, vf) ==
    LET c0 == getSaneCurrentTemp(cf, 0).temp      \* line 320, on last_avg... = 0
        v0 == getSaneCurrentTemp(vf, 0).temp      \* line 321
    IN  /\ relay = "LOW"                                            \* line 309
        /\ shw_boost_state = FALSE /\ last_shw_boost_state = FALSE  \* line 310
        /\ shw_boost_override = FALSE                               \* line 311
        /\ last_avg_shw_collector_temp = c0
        /\ last_avg_shw_vat_temp = v0
        /\ shw_collector_temp_ringbuf = [i \in 0..(SHW_RINGBUF_NUM_ITEMS - 1) |-> c0]
        /\ shw_vat_temp_ringbuf = [i \in 0..(SHW_RINGBUF_NUM_ITEMS - 1) |-> v0]
        /\ shw_ringbuf_offset = 0                                   \* line 328
        /\ shw_boost_pulsecount = 0                                 \* line 331
        /\ shw_hotwater_flowsensor_flow_rate = FZero                \* line 332
        /\ shw_hotwater_flowsensor_flow_ml = 0                      \* line 333
        /\ shw_hotwater_flowsensor_total_ml = 0                     \* line 334
        /\ flowPending = FALSE
        /\ boostAttached = TRUE /\ boostPending = FALSE             \* line 345
        /\ firsttime = TRUE /\ haveremoteudp = TRUE                 \* lines 154-155
        /\ hour = 0 /\ avg_shw_collector_temp = 0 /\ avg_shw_vat_temp = 0
        /\ shw_boostpulses = 0 /\ collector_temp = 0 /\ vat_temp = 0
        /\ relayWritten = FALSE /\ tempReported = FALSE /\ reportedCode = NoCode
        /\ prevState = FALSE /\ prevAvgCol = c0 /\ prevAvgVat = v0
        /\ lastCmd = "none" /\ pktSinceCycle = FALSE
        /\ boostEvents = 0 /\ boostDrained = 0
        /\ flowEvents = 0 /\ flowDrained = 0
        /\ flowReported = FALSE /\ flowRead = NoFlowRead
        /\ prevFlow = [pulses |-> 0, ml |-> 0]
        /\ sensorCalls = NoCalls /\ readFailed = {}

InitWith(colReads, vatReads) ==
  \E cf \in colReads, vf \in vatReads :
    /\ SetupState(cf, vf)
    /\ pc = "gate"
    /\ cycles = 0
    /\ shw_hotwater_flowsensor_pulsecount = 0                       \* line 330
    /\ flowAttached = TRUE                                          \* line 340
    \* line 335: oldtime = 0, and millis() has counted the delays of
    \* lines 274, 320 and 321 when setup() returns
    /\ elapsed = STARTUP_DELAY + getSaneCurrentTemp(cf, 0).ms
                                + getSaneCurrentTemp(vf, 0).ms

Init == InitWith({ SameFrames(GoodFrame(t)) : t \in InitColRaws },
                 { SameFrames(GoodFrame(t)) : t \in InitVatRaws })

---------------------------------------------------------------------------
(* Interrupt handlers, lines 200-212, and the edges that raise them *)

\* a falling edge on pin 3: the handler of line 209 runs if interrupt 1 is
\* attached; if not, the edge sets the interrupt flag, which holds one edge
BoostPulse(max) ==
  /\ boostEvents < max
  /\ boostEvents' = boostEvents + 1
  /\ IF boostAttached
     THEN /\ shw_boost_pulsecount' = (shw_boost_pulsecount + 1) % UINT_MOD
          /\ boostPending' = boostPending
     ELSE /\ boostPending' = TRUE
          /\ shw_boost_pulsecount' = shw_boost_pulsecount
  /\ UNCHANGED << pc, tempVars, boostVars, firsttime, haveremoteudp, boostAttached,
                  boostDrained, flowIntVars, localVars, cycleHist, cmdHist,
                  elapsed, flowVars, flowHist, senseHist >>

\* a falling edge on pin 2, handler of line 200
FlowPulse(max) ==
  /\ flowEvents < max
  /\ flowEvents' = flowEvents + 1
  /\ IF flowAttached
     THEN /\ shw_hotwater_flowsensor_pulsecount' =
               (shw_hotwater_flowsensor_pulsecount + 1) % UINT_MOD
          /\ flowPending' = flowPending
     ELSE /\ flowPending' = TRUE
          /\ shw_hotwater_flowsensor_pulsecount' = shw_hotwater_flowsensor_pulsecount
  /\ UNCHANGED << pc, tempVars, boostVars, firsttime, haveremoteudp, flowAttached,
                  flowDrained, boostIntVars, localVars, cycleHist, cmdHist,
                  elapsed, flowVars, flowHist, senseHist >>

---------------------------------------------------------------------------
(* loop(), lines 351-693 *)

\* lines 360-468, the gate open: dt the milliseconds gone by since the last
\* reading of millis(), h the clock's hour, cf and vf the sensors' answers.
\* The two calls of getSaneCurrentTemp hold loop() up for their delays.
MeasureStep(dt, h, cf, vf) ==
  LET cr   == SensorCall(cf, last_avg_shw_collector_temp)           \* lines 421-422
      vr   == SensorCall(vf, last_avg_shw_vat_temp)                 \* lines 426-427
      cc   == Clamp(cr.temp, last_avg_shw_collector_temp)           \* lines 434-437
      vc   == Clamp(vr.temp, last_avg_shw_vat_temp)                 \* lines 439-442
      cbuf == [shw_collector_temp_ringbuf EXCEPT ![shw_ringbuf_offset] = cc]
      vbuf == [shw_vat_temp_ringbuf EXCEPT ![shw_ringbuf_offset] = vc]
      av   == Average(vbuf)
      b    == BoostLogic(shw_boost_state, shw_boost_override, h, av)
  IN  /\ pc = "gate"
      /\ GateOpen(elapsed + dt)                                     \* line 360
      /\ elapsed' = elapsed + dt + cr.ms + vr.ms
      /\ hour' = h
      /\ collector_temp' = cr.temp
      /\ vat_temp' = vr.temp
      /\ sensorCalls' = [col |-> cr, vat |-> vr]
      /\ readFailed' = (IF cr.ok THEN {} ELSE {"collector"})
                         \cup (IF vr.ok THEN {} ELSE {"vat"})
      /\ shw_collector_temp_ringbuf' = cbuf                         \* line 446
      /\ shw_vat_temp_ringbuf' = vbuf                               \* line 447
      /\ shw_ringbuf_offset' = NextOffset(shw_ringbuf_offset)       \* lines 448-449
      /\ avg_shw_collector_temp' = Average(cbuf)
      /\ avg_shw_vat_temp' = av
      /\ shw_boost_state' = b.state
      /\ shw_boost_override' = b.override
      /\ cycles' = Min(cycles + 1, CycleCap)
      /\ pc' = "relayWrite"
      /\ UNCHANGED << last_avg_shw_collector_temp, last_avg_shw_vat_temp,
                      last_shw_boost_state, relay, firsttime, haveremoteudp,
                      shw_boostpulses, boostIntVars, flowIntVars, relayWritten,
                      tempReported, reportedCode, prevState, prevAvgCol, prevAvgVat, cmdHist,
                      flowVars, flowHist >>

\* lines 470-477. hour, and the sensors' readings, are not read after line 466:
\* the model forgets them here
RelayWrite ==
  LET edge == RelayEdge(shw_boost_state, last_shw_boost_state)      \* line 470
  IN  /\ pc = "relayWrite"
      /\ relay' = IF edge THEN (IF shw_boost_state THEN "HIGH" ELSE "LOW") ELSE relay
      /\ relayWritten' = edge
      /\ hour' = 0 /\ collector_temp' = 0 /\ vat_temp' = 0
      /\ sensorCalls' = NoCalls
      /\ pc' = "boostDetach"
      /\ UNCHANGED << tempVars, shw_boost_state, last_shw_boost_state,
                      shw_boost_override, firsttime, haveremoteudp, boostIntVars,
                      flowIntVars, avg_shw_collector_temp, avg_shw_vat_temp,
                      shw_boostpulses, tempReported, reportedCode, prevState, prevAvgCol,
                      prevAvgVat, cycles, cmdHist, elapsed, flowVars, flowHist,
                      readFailed >>

\* line 360, the condition false: loop() goes on to the poll
GateClosedStep(dt) ==
  /\ pc = "gate"
  /\ ~GateOpen(elapsed + dt)
  /\ elapsed' = elapsed + dt
  /\ pc' = "poll"
  /\ UNCHANGED << tempVars, boostVars, firsttime, haveremoteudp, boostIntVars,
                  flowIntVars, localVars, cycleHist, cmdHist, flowVars, flowHist,
                  senseHist >>

\* line 480
BoostDetach ==
  /\ pc = "boostDetach"
  /\ boostAttached' = FALSE
  /\ pc' = "boostRead"
  /\ UNCHANGED << tempVars, boostVars, firsttime, haveremoteudp, shw_boost_pulsecount,
                  boostPending, boostEvents, boostDrained, flowIntVars, localVars,
                  cycleHist, cmdHist, elapsed, flowVars, flowHist, senseHist >>

\* line 482
BoostRead ==
  /\ pc = "boostRead"
  /\ shw_boostpulses' = shw_boost_pulsecount
  /\ pc' = "boostReset"
  /\ UNCHANGED << tempVars, boostVars, firsttime, haveremoteudp, boostIntVars,
                  flowIntVars, hour, avg_shw_collector_temp, avg_shw_vat_temp,
                  collector_temp, vat_temp, cycleHist, cmdHist, elapsed, flowVars,
                  flowHist, senseHist >>

\* line 483: what was read at line 482 is what this cycle drained
BoostReset ==
  /\ pc = "boostReset"
  /\ shw_boost_pulsecount' = 0
  /\ boostDrained' = boostDrained + shw_boostpulses
  /\ pc' = "boostAttach"
  /\ UNCHANGED << tempVars, boostVars, firsttime, haveremoteudp, boostAttached,
                  boostPending, boostEvents, flowIntVars, localVars, cycleHist,
                  cmdHist, elapsed, flowVars, flowHist, senseHist >>

\* line 486: a flag latched while detached raises the handler now
BoostAttach ==
  /\ pc = "boostAttach"
  /\ boostAttached' = TRUE
  /\ boostPending' = FALSE
  /\ shw_boost_pulsecount' = IF boostPending
                             THEN (shw_boost_pulsecount + 1) % UINT_MOD
                             ELSE shw_boost_pulsecount
  /\ pc' = "tempReport"
  /\ UNCHANGED << tempVars, boostVars, firsttime, haveremoteudp, boostEvents,
                  boostDrained, flowIntVars, localVars, cycleHist, cmdHist,
                  elapsed, flowVars, flowHist, senseHist >>

\* lines 492-538
TempReport ==
  /\ pc = "tempReport"
  /\ IF TempReportCond(firsttime, avg_shw_collector_temp, last_avg_shw_collector_temp,
                       avg_shw_vat_temp, last_avg_shw_vat_temp,
                       shw_boost_state, last_shw_boost_state, shw_boostpulses)
     THEN /\ tempReported' = haveremoteudp                           \* lines 527-533
          /\ reportedCode' = BoostCode(shw_boost_state, shw_boost_override)
          /\ last_avg_shw_collector_temp' = Int16(avg_shw_collector_temp)   \* line 535
          /\ last_avg_shw_vat_temp' = Int16(avg_shw_vat_temp)        \* line 536
          /\ last_shw_boost_state' = shw_boost_state                 \* line 537
     ELSE /\ tempReported' = FALSE
          /\ reportedCode' = NoCode
          /\ UNCHANGED << last_avg_shw_collector_temp, last_avg_shw_vat_temp,
                          last_shw_boost_state >>
  /\ pc' = "flowDetach"
  /\ UNCHANGED << shw_ringbuf_offset, shw_collector_temp_ringbuf, shw_vat_temp_ringbuf,
                  shw_boost_state, shw_boost_override, relay, firsttime, haveremoteudp,
                  boostIntVars, flowIntVars, localVars, relayWritten, prevState,
                  prevAvgCol, prevAvgVat, cycles, cmdHist, elapsed, flowVars,
                  flowHist, senseHist >>

\* line 546
FlowDetach ==
  /\ pc = "flowDetach"
  /\ flowAttached' = FALSE
  /\ pc' = "flowCompute"
  /\ UNCHANGED << tempVars, boostVars, firsttime, haveremoteudp, boostIntVars,
                  shw_hotwater_flowsensor_pulsecount, flowPending, flowEvents,
                  flowDrained, localVars, cycleHist, cmdHist, elapsed, flowVars,
                  flowHist, senseHist >>

\* lines 553-575: the flow figures of the cycle, taken from the counter and
\* from the time since shw_hotwater_flowsensor_oldtime, which line 561 sets
\* to now
FlowCompute ==
  LET rate == FlowRate(elapsed, shw_hotwater_flowsensor_pulsecount)  \* lines 553-555
      ml   == FlowMl(rate)                                           \* line 566
  IN  /\ pc = "flowCompute"
      /\ shw_hotwater_flowsensor_flow_rate' = rate
      /\ elapsed' = 0                                                \* line 561
      /\ shw_hotwater_flowsensor_flow_ml' = ml
      /\ shw_hotwater_flowsensor_total_ml' = shw_hotwater_flowsensor_total_ml + ml  \* line 569
      /\ flowRead' = [pulses |-> shw_hotwater_flowsensor_pulsecount, ms |-> elapsed]
      /\ pc' = "flowReset"
      /\ UNCHANGED << tempVars, boostVars, firsttime, haveremoteudp, boostIntVars,
                      flowIntVars, localVars, cycleHist, cmdHist, flowReported,
                      prevFlow, senseHist >>

\* line 578
FlowReset ==
  /\ pc = "flowReset"
  /\ flowDrained' = flowDrained + shw_hotwater_flowsensor_pulsecount
  /\ shw_hotwater_flowsensor_pulsecount' = 0
  /\ pc' = "flowAttach"
  /\ UNCHANGED << tempVars, boostVars, firsttime, haveremoteudp, boostIntVars,
                  flowAttached, flowPending, flowEvents, localVars, cycleHist,
                  cmdHist, elapsed, flowVars, flowHist, senseHist >>

\* line 581
FlowAttach ==
  /\ pc = "flowAttach"
  /\ flowAttached' = TRUE
  /\ flowPending' = FALSE
  /\ shw_hotwater_flowsensor_pulsecount' =
       IF flowPending THEN (shw_hotwater_flowsensor_pulsecount + 1) % UINT_MOD
       ELSE shw_hotwater_flowsensor_pulsecount
  /\ pc' = "flowReport"
  /\ UNCHANGED << tempVars, boostVars, firsttime, haveremoteudp, boostIntVars,
                  flowEvents, flowDrained, localVars, cycleHist, cmdHist,
                  elapsed, flowVars, flowHist, senseHist >>

\* lines 595-631
FlowReport ==
  /\ pc = "flowReport"
  /\ flowReported' = (FlowReportCond(firsttime, shw_hotwater_flowsensor_flow_rate)
                        /\ haveremoteudp)                            \* lines 595, 624
  /\ pc' = "endCycle"
  /\ UNCHANGED << tempVars, boostVars, firsttime, haveremoteudp, boostIntVars,
                  flowIntVars, localVars, cycleHist, cmdHist, elapsed, flowVars,
                  flowRead, prevFlow, senseHist >>

\* line 633: the end of the cycle
EndCycle ==
  /\ pc = "endCycle"
  /\ firsttime' = FALSE                                              \* line 633
  /\ prevState' = shw_boost_state
  /\ prevAvgCol' = avg_shw_collector_temp
  /\ prevAvgVat' = avg_shw_vat_temp
  /\ prevFlow' = [pulses |-> flowRead.pulses, ml |-> shw_hotwater_flowsensor_flow_ml]
  /\ flowRead' = NoFlowRead
  /\ readFailed' = {}
  /\ pktSinceCycle' = FALSE
  /\ lastCmd' = "none"
  /\ pc' = "poll"
  /\ UNCHANGED << tempVars, boostVars, haveremoteudp, boostIntVars, flowIntVars,
                  localVars, relayWritten, tempReported, reportedCode, cycles, elapsed, flowVars,
                  flowReported, sensorCalls >>

\* lines 649-689, then loop() returns and its locals are gone; p the packet's text
Poll(p) ==
  /\ pc = "poll"
  /\ IF p # ""                                                       \* line 651
     THEN /\ haveremoteudp' = TRUE                                   \* line 658
          /\ firsttime' = (PacketForces(p) \/ firsttime)             \* line 677
          /\ pktSinceCycle' = TRUE
          /\ LET c == BoostCommand(p, shw_boost_state, shw_boost_override)
             IN  /\ shw_boost_state' = c.state
                 /\ shw_boost_override' = c.override
          /\ lastCmd' = IF p \in {"BOOST_ON", "BOOST_OFF"} THEN p ELSE lastCmd
     ELSE UNCHANGED << haveremoteudp, firsttime, pktSinceCycle, shw_boost_override,
                       shw_boost_state, lastCmd >>
  /\ hour' = 0 /\ avg_shw_collector_temp' = 0 /\ avg_shw_vat_temp' = 0
  /\ shw_boostpulses' = 0 /\ collector_temp' = 0 /\ vat_temp' = 0
  /\ pc' = "gate"
  /\ UNCHANGED << tempVars, last_shw_boost_state, relay, boostIntVars, flowIntVars,
                  cycleHist, elapsed, flowVars, flowHist, senseHist >>

---------------------------------------------------------------------------
(* The control specification: every hour, a few readings, every packet,    *)
(* no pulse edges                                                          *)

Measure ==
  /\ pc = "gate"
  /\ cycles < MaxCycles
  /\ \E dt \in Ticks, h \in Hours, cf \in Reads(ColRaws), vf \in Reads(VatRaws) :
       MeasureStep(dt, h, cf, vf)

GateClosed == \E dt \in Ticks : GateClosedStep(dt)

Receive == \E p \in Packets : Poll(p)

Next ==
  \/ Measure
  \/ GateClosed
  \/ RelayWrite
  \/ BoostDetach
  \/ BoostRead
  \/ BoostReset
  \/ BoostAttach
  \/ TempReport
  \/ FlowDetach
  \/ FlowCompute
  \/ FlowReset
  \/ FlowAttach
  \/ FlowReport
  \/ EndCycle
  \/ Receive

Spec == Init /\ [][Next]_vars

---------------------------------------------------------------------------
(* The report specification: a cold vat, an hour outside and an hour       *)
(* inside a window, every packet, and wH pulse edges at any point of loop() *)

ReportHours == {0, 15}
ReportInitVatRaws == {672}            \* 42.00
ReportVatRaws == {656}                \* 41.00

InitReport == InitWith({ SameFrames(GoodFrame(t)) : t \in InitColRaws },
                       { SameFrames(GoodFrame(t)) : t \in ReportInitVatRaws })

ReportMeasure ==
  /\ pc = "gate"
  /\ cycles < MaxReportCycles
  /\ \E dt \in Ticks, h \in ReportHours, cf \in Reads(ColRaws), vf \in Reads(ReportVatRaws) :
       MeasureStep(dt, h, cf, vf)

WhPulse == BoostPulse(MaxReportPulses)

NextReport ==
  \/ ReportMeasure
  \/ GateClosed
  \/ RelayWrite
  \/ BoostDetach
  \/ BoostRead
  \/ BoostReset
  \/ BoostAttach
  \/ TempReport
  \/ FlowDetach
  \/ FlowCompute
  \/ FlowReset
  \/ FlowAttach
  \/ FlowReport
  \/ EndCycle
  \/ Receive
  \/ WhPulse

SpecReport == InitReport /\ [][NextReport]_vars

---------------------------------------------------------------------------
(* Claims checked under Spec (C1-C5, C7) and under SpecReport (C10) *)

\* the step of lines 360-468: a cycle's readings, average and boost decision
Decided == pc = "gate" /\ pc' = "relayWrite"

\* the hour is in one of the two windows and the vat is below 42.00
WindowOn(h, T) ==
  \/ 14 <= h /\ h < 20 /\ T < 4200
  \/ 4 <= h /\ h < 7 /\ T < 4200

C2_TurnOn ==
  [][ (Decided /\ avg_shw_vat_temp' < 4600
         /\ (shw_boost_override \/ WindowOn(hour', avg_shw_vat_temp')))
      => shw_boost_state' ]_vars

\* C2's case: OFF before, no override, 15 o'clock, vat below 42.00, ON after
C2_Witness ==
  /\ pc = "relayWrite" /\ hour = 15 /\ avg_shw_vat_temp < 4200
  /\ ~prevState /\ lastCmd = "none" /\ ~shw_boost_override
  /\ shw_boost_state

C4_OverrideOn ==
  [][ /\ (Decided /\ lastCmd = "BOOST_ON" /\ avg_shw_vat_temp' < 4600)
           => (shw_boost_state' /\ shw_boost_override')
      /\ (shw_boost_override /\ ~shw_boost_override')
           => \/ Decided /\ avg_shw_vat_temp' >= 4600
              \/ pc = "poll" /\ lastCmd' = "BOOST_OFF" ]_vars

\* C4's case: BOOST_ON, then a cycle at midnight with the vat at 43.00
C4_Witness ==
  /\ pc = "relayWrite" /\ hour = 0 /\ avg_shw_vat_temp = 4300
  /\ lastCmd = "BOOST_ON" /\ ~prevState
  /\ shw_boost_state /\ shw_boost_override

\* the positions of a cycle from the decision of lines 460-468 to its end
AfterDecision == { "relayWrite", "boostDetach", "boostRead", "boostReset",
                   "boostAttach", "tempReport", "flowDetach", "flowCompute",
                   "flowReset", "flowAttach", "flowReport", "endCycle" }

\* the positions of a cycle after the SHW_TEMP record of lines 492-538
AfterTempReport == { "flowDetach", "flowCompute", "flowReset", "flowAttach",
                     "flowReport", "endCycle" }

\* C19: from the decision of a cycle to the cycle's end the override is set
\* only with the state ON; the code of a SHW_TEMP record is 0, 1 or 2, and a
\* record with code 2 is one of a cycle whose state is ON; the override is
\* set with the state OFF only after a BOOST_ON command, the last command
\* since the cycle before, and before the next cycle's decision.
C19_OverrideTransient ==
  /\ (pc \in AfterDecision /\ shw_boost_override) => shw_boost_state
  /\ (pc \in AfterTempReport /\ tempReported)
       => /\ reportedCode \in {0, 1, 2}
          /\ reportedCode = 2 => shw_boost_state
          /\ reportedCode = 2 <=> shw_boost_override
  /\ (shw_boost_override /\ ~shw_boost_state)
       => (pc \in {"gate", "poll"} /\ lastCmd = "BOOST_ON" /\ pktSinceCycle)

\* C19's case: the state was OFF, BOOST_ON set the override, and the cycle
\* after it ends with the state ON and has sent a record with code 2
C19_Witness ==
  /\ pc = "endCycle" /\ cycles = 2
  /\ ~prevState /\ lastCmd = "BOOST_ON"
  /\ shw_boost_override /\ shw_boost_state
  /\ tempReported /\ reportedCode = 2

\* C20: when loop() is at line 360, before a cycle, last_avg_shw_collector_temp
\* and last_avg_shw_vat_temp, which lines 434-445 clamp against, are the
\* averages the cycle before computed, whether that cycle sent a SHW_TEMP
\* record or not; before the first cycle they are the values setup() primed
\* the ring buffers with.
C20_LastAverageFresh ==
  pc = "gate" =>
    /\ last_avg_shw_collector_temp = prevAvgCol
    /\ last_avg_shw_vat_temp = prevAvgVat
    /\ cycles = 0 =>
         \A i \in 0..(SHW_RINGBUF_NUM_ITEMS - 1) :
           /\ shw_collector_temp_ringbuf[i] = last_avg_shw_collector_temp
           /\ shw_vat_temp_ringbuf[i] = last_avg_shw_vat_temp

\* C20's case: the first cycle moved the vat average away from the priming
\* value, the second cycle sent no record, and loop() is before the third
C20_Witness ==
  /\ pc = "gate" /\ cycles = 2 /\ ~tempReported
  /\ last_avg_shw_vat_temp = prevAvgVat
  /\ last_avg_shw_collector_temp = prevAvgCol
  /\ \E i \in 0..(SHW_RINGBUF_NUM_ITEMS - 1) :
       shw_vat_temp_ringbuf[i] # last_avg_shw_vat_temp

\* C5 as claimed: BOOST_OFF clears the override and the state at once, and
\* the state after the next cycle's decision is OFF at any temperature and hour.
C5_OverrideOffAnyCycle ==
  [][ /\ (pc = "poll" /\ lastCmd' = "BOOST_OFF")
           => (~shw_boost_state' /\ ~shw_boost_override')
      /\ (Decided /\ lastCmd = "BOOST_OFF") => ~shw_boost_state' ]_vars

\* C5 as amended: BOOST_OFF clears the override and the state at once, and
\* when no BOOST_ON follows it before the next cycle, the state after that
\* cycle's decision is OFF if T >= 4200 or the hour is outside 14..19 and 4..6.
C5_OverrideOff ==
  [][ /\ (pc = "poll" /\ lastCmd' = "BOOST_OFF")
           => (~shw_boost_state' /\ ~shw_boost_override')
      /\ (Decided /\ lastCmd = "BOOST_OFF"
            /\ ~WindowOn(hour', avg_shw_vat_temp'))
           => ~shw_boost_state' ]_vars

\* C5's case: ON at the end of the previous cycle, BOOST_OFF, then a cycle
\* at 22 o'clock with the vat below 42.00: OFF
C5_Witness ==
  /\ pc = "relayWrite" /\ hour = 22 /\ avg_shw_vat_temp < 4200
  /\ prevState /\ lastCmd = "BOOST_OFF"
  /\ ~shw_boost_state /\ ~shw_boost_override

\* C7: a cycle writes the relay output exactly when the boost state it
\* decided differs from the boost state at the end of the previous cycle.
C7_EdgeTriggered ==
  pc = "boostDetach" => (relayWritten <=> (shw_boost_state # prevState))

\* C7's case: ON at the end of the previous cycle, BOOST_OFF between the
\* cycles, OFF decided: the relay is written LOW
C7_Witness ==
  /\ pc = "boostDetach" /\ prevState /\ lastCmd = "BOOST_OFF"
  /\ ~shw_boost_state /\ relayWritten /\ relay = "LOW"

\* C10 as claimed: a cycle whose averages and boost state equal those of the
\* cycle before it, and that drained no wH pulse, sends no temperature
\* record; the first cycle after startup sends one.
C10_SuppressedWhenSame ==
  /\ (pc = "flowDetach" /\ cycles >= 2
        /\ avg_shw_collector_temp = prevAvgCol /\ avg_shw_vat_temp = prevAvgVat
        /\ shw_boost_state = prevState /\ shw_boostpulses = 0)
       => ~tempReported
  /\ (pc = "flowDetach" /\ cycles = 1) => tempReported

\* C10 as amended: the same, for two cycles between which no packet arrived.
C10_SuppressedWhenSameNoPacket ==
  /\ (pc = "flowDetach" /\ cycles >= 2 /\ ~pktSinceCycle
        /\ avg_shw_collector_temp = prevAvgCol /\ avg_shw_vat_temp = prevAvgVat
        /\ shw_boost_state = prevState /\ shw_boostpulses = 0)
       => ~tempReported
  /\ (pc = "flowDetach" /\ cycles = 1) => tempReported

\* C10's case: a second cycle that repeats the first, with no packet between
C10_Witness ==
  /\ pc = "flowDetach" /\ cycles = 2 /\ ~pktSinceCycle
  /\ avg_shw_collector_temp = prevAvgCol /\ avg_shw_vat_temp = prevAvgVat
  /\ shw_boost_state = prevState /\ shw_boostpulses = 0
  /\ ~tempReported

\* C11: a packet of any text, BOOST_ON, BOOST_OFF or unrecognized, sets the
\* force flag; the cycle that follows sends the temperature record and the
\* flow record whatever the averages, the boost state, the pulse counts and
\* the flow are; and the end of that cycle clears the flag.
C11_ForcedReport ==
  [][ /\ pktSinceCycle' => firsttime'
      /\ (pc' = "endCycle" /\ pktSinceCycle') => (tempReported' /\ flowReported')
      /\ (pc = "endCycle" /\ pc' = "poll") => ~firsttime' ]_vars

\* C11's case: an unrecognized packet after the first cycle, then a second
\* cycle with the same averages and boost state, no wH pulse and no flow:
\* both records are sent
C11_Witness ==
  /\ pc = "endCycle" /\ cycles = 2 /\ pktSinceCycle /\ lastCmd = "none"
  /\ avg_shw_collector_temp = prevAvgCol /\ avg_shw_vat_temp = prevAvgVat
  /\ shw_boost_state = prevState /\ shw_boostpulses = 0
  /\ shw_hotwater_flowsensor_flow_rate = FZero
  /\ tempReported /\ flowReported

---------------------------------------------------------------------------
(* The pulse specification: steady temperatures, no packets, and pulse     *)
(* edges on both pins at any point of loop()                               *)

SteadyCol == SameFrames(GoodFrame(640))     \* 40.00 at every reading
SteadyVat == SameFrames(GoodFrame(688))     \* 43.00 at every reading

InitPulse == InitWith({SteadyCol}, {SteadyVat})

PulseMeasure ==
  /\ pc = "gate"
  /\ cycles < MaxPulseCycles
  /\ \E dt \in Ticks, h \in {0} : MeasureStep(dt, h, SteadyCol, SteadyVat)

NoPacket == Poll("")

WhPulses == BoostPulse(MaxPulses)

FlowPulses == FlowPulse(MaxPulses)

NextPulse ==
  \/ PulseMeasure
  \/ GateClosed
  \/ RelayWrite
  \/ BoostDetach
  \/ BoostRead
  \/ BoostReset
  \/ BoostAttach
  \/ TempReport
  \/ FlowDetach
  \/ FlowCompute
  \/ FlowReset
  \/ FlowAttach
  \/ FlowReport
  \/ EndCycle
  \/ NoPacket
  \/ WhPulses
  \/ FlowPulses

SpecPulse == InitPulse /\ [][NextPulse]_vars

Flag(b) == IF b THEN 1 ELSE 0

Integrated == pc = "flowCompute" /\ pc' = "flowReset"

\* C12: a cycle that reads a flow pulse count of 0 computes a flow rate of
\* exactly 0 and 0 millilitres and leaves the cumulative volume as it was;
\* and a cycle sends the flow record exactly when its flow rate is above 0
\* or the force flag is set, as it is in the first cycle.
C12_ZeroFlow ==
  [][ /\ (Integrated /\ shw_hotwater_flowsensor_pulsecount = 0)
           => /\ shw_hotwater_flowsensor_flow_rate' = FZero
              /\ shw_hotwater_flowsensor_flow_ml' = 0
              /\ shw_hotwater_flowsensor_total_ml' = shw_hotwater_flowsensor_total_ml
      /\ (pc = "flowReport" /\ pc' = "endCycle")
           => (flowReported' <=>
                 (firsttime \/ FPositive(shw_hotwater_flowsensor_flow_rate)))
      /\ (pc = "gate" /\ pc' = "relayWrite") => (firsttime <=> cycles = 0) ]_vars

\* C12's case: water flowed in the first cycle and not in the second: the
\* second cycle sends no flow record and the cumulative volume stays
C12_Witness ==
  /\ pc = "endCycle" /\ cycles = 2 /\ ~firsttime
  /\ prevFlow.pulses > 0 /\ prevFlow.ml > 0
  /\ flowRead.pulses = 0 /\ shw_hotwater_flowsensor_flow_rate = FZero
  /\ shw_hotwater_flowsensor_flow_ml = 0
  /\ shw_hotwater_flowsensor_total_ml = prevFlow.ml
  /\ ~flowReported

\* C14: the millilitres a cycle adds for a given number of pulses do not
\* depend on the milliseconds the pulses were counted in: two cycles in a row
\* that read the same pulse count add the same millilitres.
C14_VolumeIndependentOfTiming ==
  (pc = "flowReset" /\ cycles >= 2 /\ flowRead.pulses = prevFlow.pulses)
    => shw_hotwater_flowsensor_flow_ml = prevFlow.ml

---------------------------------------------------------------------------
(* The integration specification: lines 553-569 as a function of the pulse *)
(* count and of the milliseconds since shw_hotwater_flowsensor_oldtime,    *)
(* both drawn from sets, applied MaxIntegrations times in a row            *)

MaxIntegrations == 2

IntegrateMs == {999, 1000, 1001, 2000, 3125}
IntegratePulses == {0, 1, 33, 55, 110, 127}

\* the statement before line 553, with a pulse count and a time to read
InitIntegrate ==
  \E ms \in IntegrateMs, n \in IntegratePulses :
    /\ SetupState(SteadyCol, SteadyVat)
    /\ pc = "flowCompute"
    /\ cycles = 1
    /\ flowAttached = FALSE                                         \* line 546
    /\ shw_hotwater_flowsensor_pulsecount = n
    /\ elapsed = ms

\* the next call: another pulse count, another time
NextIntegration(ms, n) ==
  /\ pc = "flowReset"
  /\ cycles < MaxIntegrations
  /\ cycles' = cycles + 1
  /\ prevFlow' = [pulses |-> flowRead.pulses, ml |-> shw_hotwater_flowsensor_flow_ml]
  /\ shw_hotwater_flowsensor_pulsecount' = n
  /\ elapsed' = ms
  /\ pc' = "flowCompute"
  /\ UNCHANGED << tempVars, boostVars, firsttime, haveremoteudp, boostIntVars,
                  flowAttached, flowPending, flowEvents, flowDrained, localVars,
                  relayWritten, tempReported, reportedCode, prevState, prevAvgCol, prevAvgVat,
                  cmdHist, flowVars, flowReported, flowRead, senseHist >>

IntegrateAgain == \E ms \in IntegrateMs, n \in IntegratePulses : NextIntegration(ms, n)

NextIntegrate ==
  \/ FlowCompute
  \/ IntegrateAgain

SpecIntegrate == InitIntegrate /\ [][NextIntegrate]_vars

\* (1000 / ms * n / 5.5) / 60 * 1000 is 100000 n / (33 ms): its integer part,
\* and whether it is more than 1/1000 away from an integer
ExactMl(ms, n) == (100000 * n) \div (33 * ms)
ClearOfInteger(ms, n) ==
  LET r == (100000 * n) % (33 * ms)
  IN  1000 * r > 33 * ms /\ 1000 * (33 * ms - r) > 33 * ms

\* C13: the millilitres of a cycle are (1000 / ms * pulses / 5.5) / 60 * 1000
\* as the float arithmetic computes it, truncated: the integer part of the
\* exact value when that is clear of an integer, and never more than 1 from
\* it; 55 pulses in 1000 ms are 10 l/min and 166 ml; and every cycle adds
\* its millilitres to the cumulative volume.
C13_FlowIntegration ==
  [][ Integrated =>
        LET ms == elapsed
            n  == shw_hotwater_flowsensor_pulsecount
        IN  /\ ClearOfInteger(ms, n)
                 => shw_hotwater_flowsensor_flow_ml' = ExactMl(ms, n)
            /\ shw_hotwater_flowsensor_flow_ml' - ExactMl(ms, n) \in {-1, 0, 1}
            /\ (n = 55 /\ ms = 1000)
                 => /\ shw_hotwater_flowsensor_flow_rate' = FFromInt(10)
                    /\ shw_hotwater_flowsensor_flow_ml' = 166
            /\ shw_hotwater_flowsensor_total_ml' =
                 shw_hotwater_flowsensor_total_ml + shw_hotwater_flowsensor_flow_ml' ]_vars

\* C13's case: 55 pulses in 1000 ms twice in a row: 166 ml each, 332 ml in all
C13_Witness ==
  /\ pc = "flowReset" /\ cycles = 2
  /\ prevFlow = [pulses |-> 55, ml |-> 166]
  /\ flowRead = [pulses |-> 55, ms |-> 1000]
  /\ shw_hotwater_flowsensor_flow_rate = FFromInt(10)
  /\ shw_hotwater_flowsensor_flow_ml = 166
  /\ shw_hotwater_flowsensor_total_ml = 332

---------------------------------------------------------------------------
(* The sensor specification: every sequence of five answers of the         *)
(* collector sensor out of good frames, frames with a wrong CRC and frames *)
(* at and next to the two ends of the range                                *)

MaxSensorCycles == 1

\* 40.00, -5.00, -4.93, 99.93, 100.00, and a frame whose CRC is wrong
SensorFrames == { GoodFrame(640), GoodFrame(65456), GoodFrame(65457),
                  GoodFrame(1599), GoodFrame(1600), BadFrame }

SensorColReads == [1..SANE_TRIES -> SensorFrames]

\* the vat sensor: 43.00 at once, or 43.00 at the third attempt
LateVat == << BadFrame, GoodFrame(1600), GoodFrame(688), GoodFrame(656), BadFrame >>
SensorVatReads == { SteadyVat, LateVat }

InitSensor == InitWith({SteadyCol}, {SteadyVat})

SensorMeasure ==
  /\ pc = "gate"
  /\ cycles < MaxSensorCycles
  /\ \E dt \in Ticks, h \in {0}, cf \in SensorColReads, vf \in SensorVatReads :
       MeasureStep(dt, h, cf, vf)

NextSensor ==
  \/ SensorMeasure
  \/ GateClosed
  \/ RelayWrite
  \/ BoostDetach
  \/ BoostRead
  \/ BoostReset
  \/ BoostAttach
  \/ TempReport
  \/ FlowDetach
  \/ FlowCompute
  \/ FlowReset
  \/ FlowAttach
  \/ FlowReport
  \/ EndCycle
  \/ NoPacket

SpecSensor == InitSensor /\ [][NextSensor]_vars

\* frame f passes the integrity check and the range check
Passes(f) == f.crc /\ -500 < DecodeTemp(f.t) /\ DecodeTemp(f.t) < 10000

\* c is a call of getSaneCurrentTemp entered with *temp = before
BoundedRetry(c, before) ==
  /\ c.tries \in 1..5
  /\ c.ms <= 5 * (CONVERT_DELAY + RETRY_DELAY)
  /\ c.ok => /\ Passes(c.frames[c.tries])
             /\ \A i \in 1..(c.tries - 1) : ~Passes(c.frames[i])
             /\ c.temp = DecodeTemp(c.frames[c.tries].t)
  /\ ~c.ok <=> \A i \in 1..5 : ~Passes(c.frames[i])
  /\ ~c.ok => (c.tries = 5 /\ c.temp = before)

\* C15: a call of getSaneCurrentTemp ends after at most 5 attempts; it
\* succeeds with the decoded value of the first attempt whose frame passes
\* the integrity check and the range check, fails exactly when none of the
\* 5 does, and on failure the caller's variable holds what it held.
C15_BoundedRetry ==
  pc = "relayWrite" =>
    /\ BoundedRetry(sensorCalls.col, last_avg_shw_collector_temp)
    /\ BoundedRetry(sensorCalls.vat, last_avg_shw_vat_temp)
    /\ collector_temp = sensorCalls.col.temp
    /\ vat_temp = sensorCalls.vat.temp

\* C15's case: the collector call fails after a frame out of range, a wrong
\* CRC and three more frames out of range, and collector_temp is the last
\* average; the vat call succeeds at its third attempt with that frame's value
C15_Witness ==
  /\ pc = "relayWrite"
  /\ sensorCalls.col.frames = << GoodFrame(1600), BadFrame, GoodFrame(65456),
                                 GoodFrame(1600), GoodFrame(65456) >>
  /\ ~sensorCalls.col.ok /\ sensorCalls.col.tries = 5
  /\ collector_temp = last_avg_shw_collector_temp
  /\ sensorCalls.vat.frames = LateVat
  /\ sensorCalls.vat.ok /\ sensorCalls.vat.tries = 3 /\ vat_temp = 4300

\* the attempts of call c whose frame passed the integrity check were
\* accepted exactly when InRange of the decoded value
AcceptedWhen(c, InRange(_)) ==
  \A i \in 1..c.tries :
    c.frames[i].crc => ((c.ok /\ i = c.tries) <=> InRange(DecodeTemp(c.frames[i].t)))

InclusiveRange(t) == -500 <= t /\ t <= 10000
StrictRange(t) == -500 < t /\ t < 10000

\* C17 as claimed: a sample whose frame passes the integrity check is
\* accepted exactly when it is in -500..10000, the two ends included.
C17_InclusiveRange ==
  pc = "relayWrite" => AcceptedWhen(sensorCalls.col, InclusiveRange)

\* C17 as amended: a sample whose frame passes the integrity check is
\* accepted exactly when it is above -500 and below 10000; -500 and 10000
\* are rejected and the read is tried again.
C17_StrictRange ==
  pc = "relayWrite" => AcceptedWhen(sensorCalls.col, StrictRange)

\* C17's case: -5.00 is rejected, 100.00 is rejected, -4.93 is accepted
C17_Witness ==
  /\ pc = "relayWrite"
  /\ sensorCalls.col.frames[1] = GoodFrame(65456)
  /\ sensorCalls.col.frames[2] = GoodFrame(1600)
  /\ sensorCalls.col.frames[3] = GoodFrame(65457)
  /\ sensorCalls.col.ok /\ sensorCalls.col.tries = 3
  /\ sensorCalls.col.temp = -493

---------------------------------------------------------------------------
(* The clamp specification: readings and first averages over the whole     *)
(* valid range, on both channels                                           *)

MaxClampCycles == 2

ClampColRaws == {640, 672}                  \* 40.00, 42.00
ClampVatRaws == {65457, 0, 16, 17, 1599}    \* -4.93, 0.00, 1.00, 1.06, 99.93

InitClamp == InitWith(Reads(ClampColRaws), Reads(ClampVatRaws))

ClampMeasure ==
  /\ pc = "gate"
  /\ cycles < MaxClampCycles
  /\ \E dt \in Ticks, h \in {0}, cf \in Reads(ClampColRaws), vf \in Reads(ClampVatRaws) :
       MeasureStep(dt, h, cf, vf)

NextClamp ==
  \/ ClampMeasure
  \/ GateClosed
  \/ RelayWrite
  \/ BoostDetach
  \/ BoostRead
  \/ BoostReset
  \/ BoostAttach
  \/ TempReport
  \/ FlowDetach
  \/ FlowCompute
  \/ FlowReset
  \/ FlowAttach
  \/ FlowReport
  \/ EndCycle
  \/ NoPacket

SpecClamp == InitClamp /\ [][NextClamp]_vars

\* the slot the cycle has just written
Written(buf) == buf[(shw_ringbuf_offset + SHW_RINGBUF_NUM_ITEMS - 1) % SHW_RINGBUF_NUM_ITEMS]

\* w was written for the reading r against the last average a
Clamped(w, r, a) ==
  /\ Abs(w - a) <= 100
  /\ Abs(r - a) <= 100 => w = r
  /\ r - a > 100 => w = a + 100
  /\ r - a < -100 => w = a - 100

\* C8: the value a cycle writes into either ring buffer is within 100 of the
\* last average, is the reading itself when that is within 100 of the last
\* average, and is the last average plus or minus 100 otherwise.
C8_DeviationClamp ==
  pc = "relayWrite" =>
    /\ Clamped(Written(shw_collector_temp_ringbuf), collector_temp,
               last_avg_shw_collector_temp)
    /\ Clamped(Written(shw_vat_temp_ringbuf), vat_temp, last_avg_shw_vat_temp)

\* C8's case: in one cycle the vat reading is clamped from below, and the
\* collector reading, 100 or less from its average and not equal to it,
\* is written as read
C8_Witness ==
  /\ pc = "relayWrite"
  /\ vat_temp - last_avg_shw_vat_temp < -100
  /\ Written(shw_vat_temp_ringbuf) = last_avg_shw_vat_temp - 100
  /\ collector_temp # last_avg_shw_collector_temp
  /\ Abs(collector_temp - last_avg_shw_collector_temp) <= 100
  /\ Written(shw_collector_temp_ringbuf) = collector_temp

\* the positions of a cycle, in the order loop() passes them
CycleOrder == << "relayWrite", "boostDetach", "boostRead", "boostReset", "boostAttach",
                "tempReport", "flowDetach", "flowCompute", "flowReset", "flowAttach",
                "flowReport", "endCycle", "poll" >>

\* C16: in a cycle where a channel's read fails, the slot written for that
\* channel is the channel's last average; the slot of the other channel is
\* its own reading, clamped; the boost decision is taken on the average as
\* in any cycle; the pulse counters are left alone; and loop() goes on
\* through every position of the cycle to its end.
C16_StaleOnFailure ==
  [][ /\ Decided =>
           /\ "collector" \in readFailed'
                => shw_collector_temp_ringbuf'[shw_ringbuf_offset]
                     = last_avg_shw_collector_temp
           /\ "vat" \in readFailed'
                => shw_vat_temp_ringbuf'[shw_ringbuf_offset] = last_avg_shw_vat_temp
           /\ "collector" \notin readFailed'
                => Clamped(shw_collector_temp_ringbuf'[shw_ringbuf_offset],
                           collector_temp', last_avg_shw_collector_temp)
           /\ "vat" \notin readFailed'
                => Clamped(shw_vat_temp_ringbuf'[shw_ringbuf_offset],
                           vat_temp', last_avg_shw_vat_temp)
           /\ avg_shw_vat_temp' = Average(shw_vat_temp_ringbuf')
           /\ avg_shw_collector_temp' = Average(shw_collector_temp_ringbuf')
           /\ LET d == BoostLogic(shw_boost_state, shw_boost_override, hour',
                                  avg_shw_vat_temp')
              IN  /\ shw_boost_state' = d.state
                  /\ shw_boost_override' = d.override
           /\ UNCHANGED << shw_boost_pulsecount, shw_hotwater_flowsensor_pulsecount >>
      /\ (readFailed # {} /\ pc' # pc)
           => \E i \in 1..(Len(CycleOrder) - 1) :
                pc = CycleOrder[i] /\ pc' = CycleOrder[i + 1] ]_vars

\* C16's case: the vat read fails in the second cycle, the slot written is
\* the vat average of the first cycle, the collector slot is the collector's
\* reading, and the cycle has come to its end
C16_Witness ==
  /\ pc = "endCycle" /\ cycles = 2 /\ readFailed = {"vat"}
  /\ Written(shw_vat_temp_ringbuf) = prevAvgVat
  /\ prevAvgVat # shw_vat_temp_ringbuf[0]
  /\ Written(shw_collector_temp_ringbuf) # prevAvgCol
  /\ tempReported /\ flowReported

---------------------------------------------------------------------------
(* The trend specification: from any first reading, every later reading of *)
(* a channel is the same                                                   *)

TrendCol == SameFrames(GoodFrame(65520))    \* -1.00 at every reading
TrendVat == SameFrames(GoodFrame(688))      \* 43.00 at every reading
TrendColTemp == DecodeTemp(65520)           \* w of the collector
TrendVatTemp == DecodeTemp(688)             \* w of the vat

TrendInitColRaws == {65520, 65504, 65535, 0, 16}             \* -1.00 -2.00 -0.06 0.00 1.00
TrendInitVatRaws == {688, 672, 687, 689, 704, 640, 736, 0}   \* 43.00 42.00 42.93 43.06 44.00 40.00 46.00 0.00

InitTrend == InitWith({ SameFrames(GoodFrame(t)) : t \in TrendInitColRaws },
                      { SameFrames(GoodFrame(t)) : t \in TrendInitVatRaws })

TrendMeasure == \E dt \in Ticks, h \in {0} : MeasureStep(dt, h, TrendCol, TrendVat)

NextTrend ==
  \/ TrendMeasure
  \/ GateClosed
  \/ RelayWrite
  \/ BoostDetach
  \/ BoostRead
  \/ BoostReset
  \/ BoostAttach
  \/ TempReport
  \/ FlowDetach
  \/ FlowCompute
  \/ FlowReset
  \/ FlowAttach
  \/ FlowReport
  \/ EndCycle
  \/ NoPacket

SpecTrend == InitTrend /\ [][NextTrend]_vars

\* C9: with every reading of a channel equal to w, the smoothed average of
\* that channel is w in every cycle from the TrendSettled-th on; and from a
\* buffer primed with v, |w - v| <= 100 (before the tenth cycle the slot at
\* the offset still holds v), it is w at the tenth cycle.
C9_TrendPropagates ==
  [][ Decided =>
        /\ cycles' >= TrendSettled
             => /\ avg_shw_vat_temp' = TrendVatTemp
                /\ avg_shw_collector_temp' = TrendColTemp
        /\ (cycles = 9
              /\ Abs(TrendVatTemp - shw_vat_temp_ringbuf[shw_ringbuf_offset]) <= 100)
             => avg_shw_vat_temp' = TrendVatTemp
        /\ (cycles = 9
              /\ Abs(TrendColTemp - shw_collector_temp_ringbuf[shw_ringbuf_offset]) <= 100)
             => avg_shw_collector_temp' = TrendColTemp ]_vars

\* C9's case: the vat average, primed with 0.00, reaches w = 43.00 at the
\* TrendSettled-th cycle and not before
C9_Witness ==
  /\ pc = "relayWrite" /\ cycles = TrendSettled
  /\ avg_shw_vat_temp = TrendVatTemp /\ prevAvgVat # TrendVatTemp
  /\ avg_shw_collector_temp = TrendColTemp

---------------------------------------------------------------------------
(* The gate specification: loop() passes that read millis() half a period  *)
(* or a millisecond more after the one before, so that line 360 reads one  *)
(* period exactly and one millisecond more than a period; steady sensors,  *)
(* any packet.                                                              *)

MaxGateCycles == 2

GateTicks == {500, 501}

InitGate == InitWith({SteadyCol}, {SteadyVat})

GateMeasure ==
  /\ pc = "gate"
  /\ cycles < MaxGateCycles
  /\ \E dt \in GateTicks, h \in {0} : MeasureStep(dt, h, SteadyCol, SteadyVat)

GateSkip == \E dt \in GateTicks : GateClosedStep(dt)

NextGate ==
  \/ GateMeasure
  \/ GateSkip
  \/ RelayWrite
  \/ BoostDetach
  \/ BoostRead
  \/ BoostReset
  \/ BoostAttach
  \/ TempReport
  \/ FlowDetach
  \/ FlowCompute
  \/ FlowReset
  \/ FlowAttach
  \/ FlowReport
  \/ EndCycle
  \/ Receive

SpecGate == InitGate /\ [][NextGate]_vars

\* loop() passes line 360
GatePassed == pc = "gate" /\ pc' # "gate"

\* millis() - shw_hotwater_flowsensor_oldtime as line 360 read it in the step:
\* what has gone by at the end of the step, less the delays of the sensor
\* calls the step made
GateReading ==
  IF pc' = "relayWrite"
  THEN elapsed' - sensorCalls'.col.ms - sensorCalls'.vat.ms
  ELSE elapsed'

\* when loop() passes line 360 it goes either into the cycle's work or
\* straight to the poll, and it comes back to line 360 from the poll only
PollEveryPass ==
  /\ GatePassed => pc' \in {"relayWrite", "poll"}
  /\ (pc = "endCycle" /\ pc' # pc) => pc' = "poll"
  /\ (pc' = "gate" /\ pc # "gate") => pc = "poll"

\* C18 as stated: the work of a cycle runs exactly when at least 1000 ms
\* have gone by since the time the last cycle recorded at line 561, and the
\* poll runs in every pass of loop().
C18_GateAtPeriod ==
  [][ /\ GatePassed => (pc' = "relayWrite" <=> GateReading >= GATE_PERIOD)
      /\ PollEveryPass ]_vars

\* C18, amended: the work of a cycle runs exactly when more than 1000 ms
\* have gone by since the time the last cycle recorded at line 561 (at
\* 1000 ms exactly it does not run), and the poll runs in every pass of
\* loop(), whether the work ran or not.
C18_GateAfterPeriod ==
  [][ /\ GatePassed => (pc' = "relayWrite" <=> GateReading > GATE_PERIOD)
      /\ PollEveryPass ]_vars

\* C18's case: after the first cycle a pass of loop() read exactly 1000 ms
\* at line 360, skipped the work, and its poll took a packet
C18_Witness ==
  /\ pc = "gate" /\ cycles = 1
  /\ elapsed = GATE_PERIOD
  /\ pktSinceCycle /\ lastCmd = "BOOST_ON" /\ shw_boost_override

---------------------------------------------------------------------------
(* The ring buffers, lines 318-328 and 444-449, over the many cycles of    *)
(* the trend specification.                                                *)

Slots == 0..(SHW_RINGBUF_NUM_ITEMS - 1)

\* C21: the write offset is in 0..9; setup() leaves every slot of a buffer
\* at the channel's first value; a cycle writes the slot at the offset in
\* both buffers, leaves the nine other slots of each as they were and moves
\* the offset on by one modulo 10, and no other step touches the buffers or
\* the offset; so the k-th cycle writes slot (k - 1) mod 10 and ten cycles
\* in a row write every slot once.
C21_RingDiscipline ==
  [][ /\ shw_ringbuf_offset \in Slots /\ shw_ringbuf_offset' \in Slots
      /\ cycles = 0 =>
            \A i \in Slots :
              /\ shw_collector_temp_ringbuf[i] = last_avg_shw_collector_temp
              /\ shw_vat_temp_ringbuf[i] = last_avg_shw_vat_temp
      /\ Decided =>
            /\ \A i \in Slots \ {shw_ringbuf_offset} :
                 /\ shw_collector_temp_ringbuf'[i] = shw_collector_temp_ringbuf[i]
                 /\ shw_vat_temp_ringbuf'[i] = shw_vat_temp_ringbuf[i]
            /\ Clamped(shw_collector_temp_ringbuf'[shw_ringbuf_offset],
                       collector_temp', last_avg_shw_collector_temp)
            /\ Clamped(shw_vat_temp_ringbuf'[shw_ringbuf_offset],
                       vat_temp', last_avg_shw_vat_temp)
            /\ shw_ringbuf_offset' = (shw_ringbuf_offset + 1) % SHW_RINGBUF_NUM_ITEMS
      /\ ~Decided => UNCHANGED << shw_ringbuf_offset, shw_collector_temp_ringbuf,
                                  shw_vat_temp_ringbuf >>
      /\ cycles' < CycleCap
            => shw_ringbuf_offset' = cycles' % SHW_RINGBUF_NUM_ITEMS ]_vars

\* C21's case: the eleventh cycle has written slot 0 a second time, the
\* offset has wrapped and stands at 1; the vat's slot 0 differs from the
\* slot written one cycle before, and the collector's slot 0 holds the
\* constant reading
C21_Witness ==
  /\ pc = "relayWrite" /\ cycles = SHW_RINGBUF_NUM_ITEMS + 1
  /\ shw_ringbuf_offset = 1
  /\ shw_vat_temp_ringbuf[0] # shw_vat_temp_ringbuf[SHW_RINGBUF_NUM_ITEMS - 1]
  /\ shw_vat_temp_ringbuf[0] # TrendVatTemp
  /\ shw_collector_temp_ringbuf[0] = TrendColTemp

---------------------------------------------------------------------------
(* The relay output against the boost state, lines 309, 470-471, 537, 685. *)

\* line 471: the level written for a boost state
RelayLevel(state) == IF state THEN "HIGH" ELSE "LOW"

\* the level of the relay pin is the one of the boost state
RelayAgrees == relay = RelayLevel(shw_boost_state)

\* the positions of a cycle after line 471
AfterRelayWrite == AfterDecision \ {"relayWrite"}

\* C22: from line 471 of a cycle to the cycle's end the relay level is the
\* one of the boost state, and from the end of the report block (line 537)
\* on last_shw_boost_state is the boost state, so both hold when the cycle
\* ends, whatever packets came before.  The level and the state come apart
\* only in a cycle's decision, which line 471 of the same cycle follows, or
\* when BOOST_OFF is received; between cycles they differ only with the
\* relay HIGH and the state OFF, after a packet, the state having been ON at
\* the end of the cycle before, until line 471 of the next cycle.
C22_RelayFollowsState ==
  [][ /\ pc' \in AfterRelayWrite => RelayAgrees'
      /\ pc' \in AfterTempReport => last_shw_boost_state' = shw_boost_state'
      /\ (pc = "endCycle" /\ pc' = "poll")
           => (RelayAgrees' /\ last_shw_boost_state' = shw_boost_state')
      /\ (RelayAgrees /\ ~RelayAgrees')
           => \/ Decided
              \/ pc = "poll" /\ lastCmd' = "BOOST_OFF"
      /\ (~RelayAgrees' /\ pc' # "relayWrite")
           => /\ pc' \in {"gate", "poll"}
              /\ relay' = "HIGH" /\ ~shw_boost_state'
              /\ pktSinceCycle' /\ prevState'
      /\ cycles = 0 => relay = "LOW" ]_vars

\* C22's case: ON at the end of the first cycle, BOOST_OFF between the
\* cycles (the relay stays HIGH with the state OFF), and a second cycle that
\* ends with the state OFF, the relay written LOW and the remembered state OFF
C22_Witness ==
  /\ pc = "endCycle" /\ cycles = 2
  /\ prevState /\ lastCmd = "BOOST_OFF" /\ pktSinceCycle
  /\ ~shw_boost_state /\ relay = "LOW" /\ relayWritten
  /\ ~last_shw_boost_state

===========================================================================
